---- MODULE Spec2Model ----
(***************************************************************************)
(* A model of steam/items.py: the item schema (catalog), item views,       *)
(* attribute views and the player backpack.                                *)
(*                                                                         *)
(* Python dicts are functions from field names to values; an absent key is *)
(* a name outside the DOMAIN.  JSON scalars are tagged values (PyVal): an  *)
(* int, a float carried as units and hundredths, a string, or None.        *)
(***************************************************************************)
EXTENDS Integers, Sequences, FiniteSets, TLC

VARIABLES
    schema_obj,     \* the schema instance (its private fields), or NoObject
    schema_built,   \* history: the schema's fields as __init__ left them
    item_obj,       \* the item view last constructed, or NoObject
    attr_obj,       \* the item_attribute last constructed, or NoObject
    backpack_obj,   \* the backpack instance: its _inventory_object
    schema_iter,    \* the generator schema.__iter__ returned last: its locals
    backpack_iter,  \* the generator backpack.__iter__ returned last: its locals
    raised,         \* the exception the last call raised, or NoError
    ret             \* the last call: its name, its arguments, its result

vars == <<schema_obj, schema_built, item_obj, attr_obj, backpack_obj, schema_iter,
          backpack_iter, raised, ret>>

----------------------------------------------------------------------------
(* Bounds of the model *)

\* the longest attribute list of an inventory item
MaxAttrs == 2
\* the largest style index of an inventory item
MaxStyleId == 3
\* the largest number get_value_formatted is applied to
MaxFormattedUnits == 100000

----------------------------------------------------------------------------
(* Python values *)

PyNone == [t |-> "none", n |-> 0, h |-> 0, s |-> ""]
PyInt(n) == [t |-> "int", n |-> n, h |-> 0, s |-> ""]
PyFloat(n, h) == [t |-> "float", n |-> n, h |-> h, s |-> ""]
PyStr(s) == [t |-> "str", n |-> 0, h |-> 0, s |-> s]
PyBool(b) == [t |-> "bool", n |-> IF b THEN 1 ELSE 0, h |-> 0, s |-> ""]

IsNum(v) == v.t \in {"int", "float", "bool"}

\* Python truthiness of a scalar
Truthy(v) ==
    CASE v.t = "none" -> FALSE
      [] v.t = "str" -> v.s # ""
      [] OTHER -> v.n # 0 \/ v.h # 0

\* a dict, and None where a dict is expected
NoObject == [py_none |-> TRUE]
EmptyDict == <<>>

Has(d, k) == k \in DOMAIN d
DictGet(d, k, default) == IF k \in DOMAIN d THEN d[k] ELSE default
DictSet(d, k, v) == [x \in DOMAIN d \cup {k} |-> IF x = k THEN v ELSE d[x]]
\* dict(a.items() + b.items()): b's fields win
DictMerge(a, b) == [k \in DOMAIN a \cup DOMAIN b |-> IF k \in DOMAIN b THEN b[k] ELSE a[k]]

----------------------------------------------------------------------------
(* Exceptions *)

NoError == [class |-> "None"]
Error(msg) == [class |-> "Error", msg |-> msg]
\* SchemaError.__init__ takes a status and stores the message alone
SchemaError(msg, status) == [class |-> "SchemaError", msg |-> msg]
ItemError(msg) == [class |-> "ItemError", msg |-> msg, item |-> PyNone]
KeyError(key) == [class |-> "KeyError", key |-> key]
TypeError == [class |-> "TypeError"]
ValueError == [class |-> "ValueError"]

----------------------------------------------------------------------------
(* The raw schema documents the remote service may return *)

SuccessStatus == 1
BigValue == 1000000000

AD_cannot_trade ==
    [defindex |-> 1, name |-> "cannot trade", description_format |-> "value_is_additive",
     effect_type |-> "negative", min_value |-> PyInt(1), max_value |-> PyInt(1)]
AD_tradable_after ==
    [defindex |-> 2, name |-> "tradable after date", description_format |-> "value_is_additive",
     effect_type |-> "neutral", min_value |-> PyInt(0), max_value |-> PyInt(0)]
AD_damage_bonus ==
    [defindex |-> 3, name |-> "damage bonus", description_format |-> "value_is_percentage",
     effect_type |-> "positive", min_value |-> PyInt(1), max_value |-> PyInt(2)]

\* the attribute definitions of a schema; a definition may carry a value of its own
RawAttributeLists ==
    { <<AD_cannot_trade, AD_tradable_after, AD_damage_bonus>>,
      <<AD_damage_bonus,
        DictSet(AD_tradable_after, "value", PyInt(5)),
        AD_cannot_trade>> }

ID_axe ==
    [defindex |-> 1, item_name |-> "The Axe", proper_name |-> TRUE, item_quality |-> 6,
     attributes |-> << [name |-> "damage bonus", value |-> PyFloat(1, 15)],
                       [name |-> "tradable after date", value |-> PyInt(86400)] >>,
     styles |-> << [name |-> "Plain"], [name |-> "Fancy"] >>]
ID_crate ==
    [defindex |-> 2, item_name |-> "Crate", item_quality |-> 0,
     attributes |-> << [name |-> "cannot trade", value |-> PyInt(1)] >>]
ID_gift ==
    [defindex |-> 3, item_name |-> "Gift of The Sea", proper_name |-> TRUE]

RawItemLists == { <<ID_gift, ID_axe, ID_crate>> }

RawQualities == [normal |-> 0, unique |-> 6, strange |-> 11]
RawQualityNames == [unique |-> "Unique", strange |-> "Strange"]

Statuses == {1, 0, 2, 8, 15}

RawSchemas ==
    { [status |-> st, attributes |-> al, items |-> il,
       qualities |-> RawQualities, qualityNames |-> RawQualityNames] :
        st \in {1, 0, 2}, al \in RawAttributeLists, il \in RawItemLists }

Langs == {"", "en", "fr"}

----------------------------------------------------------------------------
(* schema.__init__ *)

RECURSIVE IndexByDefindex(_, _)
\* for x in seq: d[x["defindex"]] = x
IndexByDefindex(seq, d) ==
    IF seq = <<>> THEN d
    ELSE IndexByDefindex(Tail(seq), DictSet(d, Head(seq).defindex, Head(seq)))

RECURSIVE IndexNames(_, _)
\* for attrib in seq: d[attrib["name"]] = attrib["defindex"]
IndexNames(seq, d) ==
    IF seq = <<>> THEN d
    ELSE IndexNames(Tail(seq), DictSet(d, Head(seq).name, Head(seq).defindex))

BuildQualities(raw) ==
    [v \in {raw.qualities[k] : k \in DOMAIN raw.qualities} |->
        LET k == CHOOSE k \in DOMAIN raw.qualities : raw.qualities[k] = v
        IN [id |-> v, str |-> k,
            prettystr |-> IF k \in DOMAIN raw.qualityNames THEN raw.qualityNames[k] ELSE k]]

SchemaFields(raw, lang) ==
    [_language |-> lang,
     _attributes |-> IndexByDefindex(raw.attributes, EmptyDict),
     _attribute_names |-> IndexNames(raw.attributes, EmptyDict),
     _items |-> IndexByDefindex(raw.items, EmptyDict),
     _qualities |-> BuildQualities(raw)]

SchemaInit(raw, lang) ==
    /\ schema_obj = NoObject
    /\ LET l == IF lang = "" THEN "en" ELSE lang
       IN IF raw.status # SuccessStatus
          THEN /\ raised' = SchemaError("Schema error", raw.status)
               /\ UNCHANGED <<schema_obj, schema_built>>
          ELSE /\ raised' = NoError
               /\ schema_obj' = SchemaFields(raw, l)
               /\ schema_built' = SchemaFields(raw, l)
    /\ ret' = [op |-> "schema.__init__", status |-> raw.status, lang |-> lang]
    /\ UNCHANGED <<item_obj, attr_obj, backpack_obj, schema_iter, backpack_iter>>

----------------------------------------------------------------------------
(* item.__init__ and schema.create_item *)

\* a variant that looks every instance up by defindex, named or not
FindSchemaItemByDefindexOnly(S, oitem) ==
    IF Has(oitem, "defindex") /\ oitem.defindex \in DOMAIN S._items
    THEN S._items[oitem.defindex]
    ELSE NoObject

\* the schema entry item.__init__ settles on: None when there is none
FindSchemaItem(S, oitem) ==
    IF ~Has(oitem, "item_name")
    THEN IF Has(oitem, "defindex") /\ oitem.defindex \in DOMAIN S._items
         THEN S._items[oitem.defindex]
         ELSE NoObject
    ELSE oitem

\* a dict is false when it is None or empty
DictFalsy(d) == d = NoObject \/ DOMAIN d = {}

\* the outcome of item(schema, oitem): the exception raised and the object built
ItemInit(S, oitem) ==
    IF oitem = NoObject
    THEN [exc |-> TypeError, obj |-> NoObject]
    ELSE LET sitem == FindSchemaItem(S, oitem)
         IN IF DictFalsy(sitem)
            THEN [exc |-> ItemError("Item has no corresponding schema entry"), obj |-> NoObject]
            ELSE [exc |-> NoError, obj |-> [_item |-> oitem, _schema_item |-> sitem]]

CreateItem(oitem) ==
    /\ schema_obj # NoObject
    /\ LET r == ItemInit(schema_obj, oitem)
       IN /\ raised' = r.exc
          /\ item_obj' = r.obj
          /\ ret' = [op |-> "schema.create_item", oitem |-> oitem]
    /\ UNCHANGED <<schema_obj, schema_built, attr_obj, backpack_obj, schema_iter, backpack_iter>>

\* schema[key]: key is a defindex or anything with a "defindex" field
SchemaGetItem(key) ==
    /\ schema_obj # NoObject
    /\ LET realkey == IF Has(key, "defindex") THEN key.defindex ELSE key.n
       IN IF realkey \in DOMAIN schema_obj._items
          THEN LET r == ItemInit(schema_obj, schema_obj._items[realkey])
               IN raised' = r.exc /\ item_obj' = r.obj
          ELSE raised' = KeyError(PyInt(realkey)) /\ item_obj' = NoObject
    /\ ret' = [op |-> "schema.__getitem__", key |-> key]
    /\ UNCHANGED <<schema_obj, schema_built, attr_obj, backpack_obj, schema_iter, backpack_iter>>

----------------------------------------------------------------------------
(* item_attribute *)

AttrGetValue(a) == DictGet(a, "value", PyNone)

ValuePrefixLen == 9
\* description_format[9:], None when the record has no description_format
AttrGetValueType(a) ==
    IF Has(a, "description_format")
    THEN PyStr(SubSeq(a.description_format, ValuePrefixLen + 1, Len(a.description_format)))
    ELSE PyNone

Digit(d) == CASE d = 0 -> "0" [] d = 1 -> "1" [] d = 2 -> "2" [] d = 3 -> "3" [] d = 4 -> "4"
              [] d = 5 -> "5" [] d = 6 -> "6" [] d = 7 -> "7" [] d = 8 -> "8" [] d = 9 -> "9"
Digits == {Digit(d) : d \in 0..9}
IsIntLiteral(s) == Len(s) > 0 /\ \A i \in 1..Len(s) : SubSeq(s, i, i) \in Digits

\* what int(v) raises
IntRaises(v) ==
    CASE v.t = "none" -> TypeError
      [] v.t = "str" /\ ~IsIntLiteral(v.s) -> ValueError
      [] OTHER -> NoError

DigitValue(c) == CHOOSE d \in 0..9 : Digit(d) = c
RECURSIVE StrToNat(_)
StrToNat(s) ==
    IF Len(s) = 0 THEN 0
    ELSE StrToNat(SubSeq(s, 1, Len(s) - 1)) * 10 + DigitValue(SubSeq(s, Len(s), Len(s)))

\* int(v) where it does not raise
PyToInt(v) == IF v.t = "str" THEN StrToNat(v.s) ELSE v.n

\* v > n between a value and an int: numbers by value, a str is above every number
PyGreaterInt(v, n) ==
    IF IsNum(v) THEN v.n > n \/ (v.n = n /\ v.h > 0) ELSE v.t = "str"

\* the normalization's try block has one handler: except TypeError
NormalizeCatches(e) == e = TypeError

\* item_attribute(a): the exception raised and the record a as the call leaves it
AttrInit(a) ==
    LET e == IntRaises(AttrGetValue(a))
    IN IF e # NoError
       THEN [exc |-> IF NormalizeCatches(e) THEN NoError ELSE e, attribute |-> a]
       ELSE IF ~Has(a, "name")
       THEN [exc |-> KeyError(PyStr("name")), attribute |-> a]
       ELSE LET a1 == IF a.name = "tradable after date"
                      THEN DictSet(a, "description_format", "value_is_date")
                      ELSE a
                a2 == IF /\ AttrGetValueType(a1) # PyStr("date")
                         /\ PyGreaterInt(AttrGetValue(a1), BigValue)
                         /\ Has(a1, "float_value")
                      THEN DictSet(a1, "value", a1.float_value)
                      ELSE a1
            IN [exc |-> NoError, attribute |-> a2]

SetMin(S) == CHOOSE x \in S : \A y \in S : x <= y

\* [item_attribute(x) for x in seq]: the first exception raised, the views built and
\* every record of seq as the comprehension leaves it
WrapAll(seq) ==
    LET r == [i \in 1..Len(seq) |-> AttrInit(seq[i])]
        bad == {i \in 1..Len(seq) : r[i].exc # NoError}
        stop == IF bad = {} THEN Len(seq) + 1 ELSE SetMin(bad)
    IN [exc |-> IF bad = {} THEN NoError ELSE r[stop].exc,
        val |-> IF bad = {} THEN [i \in 1..Len(seq) |-> r[i].attribute] ELSE <<>>,
        after |-> [i \in 1..Len(seq) |-> IF i < stop THEN r[i].attribute ELSE seq[i]]]

WrapOutcome(w) == [exc |-> w.exc, val |-> w.val]

\* the construction of one attribute view from a record
AttrConstruct(a) ==
    /\ LET r == AttrInit(a)
       IN /\ raised' = r.exc
          /\ attr_obj' = IF r.exc = NoError THEN [_attribute |-> r.attribute] ELSE NoObject
          /\ ret' = [op |-> "item_attribute.__init__", attribute |-> a, after |-> r.attribute]
    /\ UNCHANGED <<schema_obj, schema_built, item_obj, backpack_obj, schema_iter, backpack_iter>>

----------------------------------------------------------------------------
(* schema.get_raw_attributes and schema.get_attributes *)

\* self._attributes.values() sorted by "defindex"
AllAttributesSorted(S) ==
    LET byIndex == [k \in DOMAIN S._attributes |-> S._attributes[k].defindex]
        RECURSIVE Pick(_)
        Pick(K) == IF K = {} THEN <<>>
                   ELSE LET k == CHOOSE k \in K : \A j \in K : byIndex[k] <= byIndex[j]
                        IN <<S._attributes[k]>> \o Pick(K \ {k})
    IN Pick(DOMAIN S._attributes)

\* the item's attribute list in the schema, [] on KeyError
SchemaItemAttrs(S, it) ==
    IF /\ Has(it._item, "defindex")
       /\ it._item.defindex \in DOMAIN S._items
       /\ Has(S._items[it._item.defindex], "attributes")
    THEN S._items[it._item.defindex].attributes
    ELSE <<>>

\* get_raw_attributes(item): the KeyError of the first unknown attribute name, or the
\* schema's attribute definitions merged with the item's schema attributes
GetRawAttributes(S, it) ==
    LET attrs == SchemaItemAttrs(S, it)
        bad == {i \in 1..Len(attrs) : attrs[i].name \notin DOMAIN S._attribute_names}
    IN IF bad # {}
       THEN [exc |-> KeyError(PyStr(attrs[SetMin(bad)].name)), val |-> <<>>]
       ELSE [exc |-> NoError,
             val |-> [i \in 1..Len(attrs) |->
                        DictMerge(S._attributes[S._attribute_names[attrs[i].name]], attrs[i])]]

\* schema.get_attributes(): the views wrap the schema's own records
SchemaGetAttributesAll ==
    /\ schema_obj # NoObject
    /\ LET attrs == AllAttributesSorted(schema_obj)
           w == WrapAll(attrs)
       IN /\ raised' = w.exc
          /\ ret' = [op |-> "schema.get_attributes", val |-> w.val]
          /\ schema_obj' = [schema_obj EXCEPT !._attributes =
                [k \in DOMAIN schema_obj._attributes |->
                    LET i == CHOOSE i \in 1..Len(attrs) : attrs[i] = schema_obj._attributes[k]
                    IN w.after[i]]]
    /\ UNCHANGED <<schema_built, item_obj, attr_obj, backpack_obj, schema_iter, backpack_iter>>

\* schema.get_attributes(item): the views wrap fresh merged records
SchemaGetAttributesOf ==
    /\ schema_obj # NoObject
    /\ item_obj # NoObject
    /\ LET r == GetRawAttributes(schema_obj, item_obj)
           w == WrapAll(r.val)
       IN /\ raised' = IF r.exc # NoError THEN r.exc ELSE w.exc
          /\ ret' = [op |-> "schema.get_attributes(item)", val |-> w.val]
    /\ UNCHANGED <<schema_obj, schema_built, item_obj, attr_obj, backpack_obj, schema_iter, backpack_iter>>

----------------------------------------------------------------------------
(* item.get_attributes *)

\* the instance's own attribute list, [] for a schema item or on KeyError
ItemAttrs(it) ==
    IF it._item # it._schema_item /\ Has(it._item, "attributes")
    THEN it._item.attributes
    ELSE <<>>

\* the first instance attribute with the defindex of attr, 0 when there is none
FirstMatch(attr, item_attrs) ==
    LET m == {j \in 1..Len(item_attrs) : item_attrs[j].defindex = attr.defindex}
    IN IF m = {} THEN 0 ELSE SetMin(m)

\* the first loop of get_attributes: one record per schema attribute
FirstPass(schema_attrs, item_attrs) ==
    [i \in 1..Len(schema_attrs) |->
        LET j == FirstMatch(schema_attrs[i], item_attrs)
        IN IF j = 0 THEN schema_attrs[i] ELSE DictMerge(schema_attrs[i], item_attrs[j])]

\* usedattrs, as the set of the records appended to it
UsedAttrs(schema_attrs, item_attrs) ==
    {item_attrs[FirstMatch(schema_attrs[i], item_attrs)] :
        i \in {k \in 1..Len(schema_attrs) : FirstMatch(schema_attrs[k], item_attrs) # 0}}

\* "attr in usedattrs" compares records by value
SkippedInSecondPass(attr, schema_attrs, item_attrs) ==
    attr \in UsedAttrs(schema_attrs, item_attrs)

RECURSIVE SecondPass(_, _, _, _)
\* the second loop, from position j on: the exception raised and the records appended
SecondPass(S, j, schema_attrs, item_attrs) ==
    IF j > Len(item_attrs) THEN [exc |-> NoError, val |-> <<>>]
    ELSE LET attr == item_attrs[j]
             rest == SecondPass(S, j + 1, schema_attrs, item_attrs)
         IN IF SkippedInSecondPass(attr, schema_attrs, item_attrs) THEN rest
            ELSE IF attr.defindex \notin DOMAIN S._attributes
            THEN [exc |-> KeyError(PyInt(attr.defindex)), val |-> <<>>]
            ELSE IF rest.exc # NoError THEN rest
            ELSE [exc |-> NoError,
                  val |-> <<DictMerge(S._attributes[attr.defindex], attr)>> \o rest.val]

\* the end of get_attributes: the views of the records of both loops
FinishAttributes(first, second) ==
    IF second.exc # NoError THEN [exc |-> second.exc, val |-> <<>>]
    ELSE WrapOutcome(WrapAll(first \o second.val))

\* get_attributes after get_raw_attributes returned r
ResolveAttributes(S, r, item_attrs) ==
    IF r.exc # NoError THEN [exc |-> r.exc, val |-> <<>>]
    ELSE FinishAttributes(FirstPass(r.val, item_attrs), SecondPass(S, 1, r.val, item_attrs))

\* item.get_attributes(): the exception raised and the records of the views returned
GetAttributes(S, it) == ResolveAttributes(S, GetRawAttributes(S, it), ItemAttrs(it))

ItemGetAttributes ==
    /\ schema_obj # NoObject
    /\ item_obj # NoObject
    /\ LET r == GetAttributes(schema_obj, item_obj)
       IN /\ raised' = r.exc
          /\ ret' = [op |-> "item.get_attributes", val |-> r.val]
    /\ UNCHANGED <<schema_obj, schema_built, item_obj, attr_obj, backpack_obj, schema_iter, backpack_iter>>

----------------------------------------------------------------------------
(* item: lookup of an attribute, is_untradable *)

\* the search of item[key] in the attributes r that get_attributes() returned
LookupIn(r, key) ==
    LET hits == {i \in 1..Len(r.val) :
                    \/ key.t = "int" /\ r.val[i].defindex = key.n
                    \/ key.t = "str" /\ r.val[i].name = key.s}
    IN IF r.exc # NoError THEN [exc |-> r.exc, val |-> NoObject]
       ELSE IF hits = {} THEN [exc |-> KeyError(key), val |-> NoObject]
       ELSE [exc |-> NoError, val |-> r.val[SetMin(hits)]]

\* item[key]: the first attribute of get_attributes() whose id or name is key
ItemGetItem(S, it, key) == LookupIn(GetAttributes(S, it), key)

\* __contains__ around the outcome r of __getitem__: its KeyError is False
ContainsOutcome(r) ==
    IF r.exc = NoError THEN [exc |-> NoError, val |-> TRUE]
    ELSE IF r.exc.class = "KeyError" THEN [exc |-> NoError, val |-> FALSE]
    ELSE [exc |-> r.exc, val |-> FALSE]

\* key in item
ItemContainsKey(S, it, key) == ContainsOutcome(ItemGetItem(S, it, key))

ItemContains(key) ==
    /\ schema_obj # NoObject
    /\ item_obj # NoObject
    /\ LET r == ItemContainsKey(schema_obj, item_obj, key)
       IN /\ raised' = r.exc
          /\ ret' = [op |-> "item.__contains__", key |-> key, val |-> r.val]
    /\ UNCHANGED <<schema_obj, schema_built, item_obj, attr_obj, backpack_obj, schema_iter, backpack_iter>>

CannotTradeName == PyStr("cannot trade")

\* a variant that returns the membership test alone
UntradableOutcomeAttributeOnly(untradable, c) ==
    [exc |-> c.exc, val |-> c.val]

\* is_untradable with the flag read and the membership test c made
UntradableOutcome(untradable, c) ==
    [exc |-> c.exc, val |-> IF c.val THEN TRUE ELSE untradable]

IsUntradable(S, it) ==
    UntradableOutcome(DictGet(it._item, "flag_cannot_trade", FALSE),
                      ItemContainsKey(S, it, CannotTradeName))

ItemIsUntradable ==
    /\ schema_obj # NoObject
    /\ item_obj # NoObject
    /\ LET r == IsUntradable(schema_obj, item_obj)
       IN /\ raised' = r.exc
          /\ ret' = [op |-> "item.is_untradable", val |-> r.exc = NoError /\ r.val]
    /\ UNCHANGED <<schema_obj, schema_built, item_obj, attr_obj, backpack_obj, schema_iter, backpack_iter>>

----------------------------------------------------------------------------
(* item: quality, name, style *)

BrokenQuality == [id |-> 0, prettystr |-> "Broken", str |-> "ohnoes"]

GetQuality(S, it) ==
    LET qid == DictGet(it._item, "quality", DictGet(it._schema_item, "item_quality", 0))
    IN IF qid \in DOMAIN S._qualities THEN S._qualities[qid] ELSE BrokenQuality

GetSchemaId(it) == it._item.defindex
GetCustomName(it) == DictGet(it._item, "custom_name", PyNone)
IsNamePrefixed(it) == DictGet(it._schema_item, "proper_name", FALSE)

\* s.find(sub) != -1
Found(s, sub) == \E i \in 1..(Len(s) - Len(sub) + 1) : SubSeq(s, i, i + Len(sub) - 1) = sub
StartsWith(s, sub) == Len(s) >= Len(sub) /\ SubSeq(s, 1, Len(sub)) = sub

ArticleLen == 4
\* whether get_full_item_name drops the first four characters of the name
StripsArticle(item_name, prefixed) == Found(item_name, "The ") /\ prefixed

\* the local item_name after the article and the custom name were handled
WorkingName(it) ==
    LET item_name == it._schema_item.item_name
        stripped == IF StripsArticle(item_name, IsNamePrefixed(it))
                    THEN SubSeq(item_name, ArticleLen + 1, Len(item_name))
                    ELSE item_name
    IN IF Truthy(GetCustomName(it)) THEN GetCustomName(it).s ELSE stripped

\* a variant whose second rule forgets the quality "normal"
DisplayPrefixUniqueOnly(S, it, prefixes) ==
    LET q == GetQuality(S, it)
        looked == IF prefixes # NoObject
                  THEN DictGet(prefixes, q.str, PyStr(q.prettystr))
                  ELSE PyStr("")
        rule1 == \/ prefixes = NoObject
                 \/ Truthy(GetCustomName(it))
                 \/ (~IsNamePrefixed(it) /\ q.str = "unique")
        rule2 == /\ (prefixes = NoObject \/ S._language # "en")
                 /\ q.str = "unique"
    IN IF rule1 \/ rule2 THEN PyStr("") ELSE looked

\* the local prefix after the lookup and the two rules that empty it;
\* prefixes is None (NoObject) or a dict from quality "str" to a string or None
DisplayPrefix(S, it, prefixes) ==
    LET q == GetQuality(S, it)
        looked == IF prefixes # NoObject
                  THEN DictGet(prefixes, q.str, PyStr(q.prettystr))
                  ELSE PyStr("")
        rule1 == \/ prefixes = NoObject
                 \/ Truthy(GetCustomName(it))
                 \/ (~IsNamePrefixed(it) /\ q.str = "unique")
        rule2 == /\ (prefixes = NoObject \/ S._language # "en")
                 /\ (q.str = "unique" \/ q.str = "normal")
    IN IF rule1 \/ rule2 THEN PyStr("") ELSE looked

\* the three renderings that end get_full_item_name
RenderName(language, prefix, item_name) ==
    IF language # "en" /\ Truthy(prefix) THEN item_name \o " (" \o prefix.s \o ")"
    ELSE IF Truthy(prefix) THEN prefix.s \o " " \o item_name
    ELSE item_name

GetFullItemName(S, it, prefixes) ==
    RenderName(S._language, DisplayPrefix(S, it, prefixes), WorkingName(it))

ItemGetFullItemName(prefixes) ==
    /\ schema_obj # NoObject
    /\ item_obj # NoObject
    /\ raised' = NoError
    /\ ret' = [op |-> "item.get_full_item_name", prefixes |-> prefixes,
               val |-> GetFullItemName(schema_obj, item_obj, prefixes)]
    /\ UNCHANGED <<schema_obj, schema_built, item_obj, attr_obj, backpack_obj, schema_iter, backpack_iter>>

GetStyles(it) ==
    LET styles == DictGet(it._schema_item, "styles", <<>>)
    IN [i \in 1..Len(styles) |-> styles[i].name]

\* seq[i] with Python's indexing: from 0, negative from the end; "IndexError" past either end
PyIndexOk(seq, i) == -Len(seq) <= i /\ i < Len(seq)
PyIndex(seq, i) == IF i >= 0 THEN seq[i + 1] ELSE seq[Len(seq) + i + 1]

\* "if styleid:" is false for None and for 0
HasStyleId(styleid) == Truthy(styleid)

GetCurrentStyleName(it) ==
    LET styleid == DictGet(it._item, "style", PyNone)
    IN IF HasStyleId(styleid)
       THEN IF PyIndexOk(GetStyles(it), styleid.n)
            THEN PyStr(PyIndex(GetStyles(it), styleid.n))
            ELSE styleid
       ELSE PyNone

ItemGetCurrentStyleName ==
    /\ schema_obj # NoObject
    /\ item_obj # NoObject
    /\ raised' = NoError
    /\ ret' = [op |-> "item.get_current_style_name", val |-> GetCurrentStyleName(item_obj)]
    /\ UNCHANGED <<schema_obj, schema_built, item_obj, attr_obj, backpack_obj, schema_iter, backpack_iter>>

----------------------------------------------------------------------------
(* item_attribute.get_value_formatted *)

RECURSIVE NatToStr(_)
NatToStr(n) == IF n < 10 THEN Digit(n) ELSE NatToStr(n \div 10) \o Digit(n % 10)

\* str() of an int
IntToStr(n) == IF n < 0 THEN "-" \o NatToStr(0 - n) ELSE NatToStr(n)

\* str() of a float of at most two decimals
FloatToStr(n, h) ==
    NatToStr(n) \o "." \o
        (IF h % 10 = 0 THEN Digit(h \div 10) ELSE Digit(h \div 10) \o Digit(h % 10))

PyToStr(v) ==
    CASE v.t = "none" -> "None"
      [] v.t = "str" -> v.s
      [] v.t = "int" -> IntToStr(v.n)
      [] v.t = "bool" -> IF v.n = 1 THEN "True" ELSE "False"
      [] v.t = "float" -> FloatToStr(v.n, v.h)

\* int(round(val * 100)) of a number
Percent(v) == v.n * 100 + v.h

\* a variant whose negative branch measures the distance from 200 percent
PercentageValueReflected(pval, effect_type) ==
    IF effect_type = "negative" THEN 0 - (200 - pval) ELSE pval - 100

\* the percentage branch: both effect types
PercentageValue(pval, effect_type) ==
    IF effect_type = "negative" THEN 0 - (100 - pval) ELSE pval - 100

Pad2(n) == IF n < 10 THEN "0" \o NatToStr(n) ELSE NatToStr(n)

\* time.strftime("%F %H:%M:%S", time.gmtime(t)) for t >= 0
FormatDate(t) ==
    LET days == t \div 86400
        secs == t % 86400
        z == days + 719468
        era == z \div 146097
        doe == z - era * 146097
        yoe == (doe - doe \div 1460 + doe \div 36524 - doe \div 146096) \div 365
        doy == doe - (365 * yoe + yoe \div 4 - yoe \div 100)
        mp == (5 * doy + 2) \div 153
        d == doy - (153 * mp + 2) \div 5 + 1
        m == IF mp < 10 THEN mp + 3 ELSE mp - 9
        y == yoe + era * 400 + (IF m <= 2 THEN 1 ELSE 0)
    IN NatToStr(y) \o "-" \o Pad2(m) \o "-" \o Pad2(d) \o " " \o
       Pad2(secs \div 3600) \o ":" \o Pad2((secs % 3600) \div 60) \o ":" \o Pad2(secs % 60)

\* get_value_formatted(value): the exception raised and the string returned;
\* value = None stands for the call without an argument
GetValueFormatted(a, value) ==
    LET val == IF value = PyNone THEN AttrGetValue(a) ELSE value
        ftype == AttrGetValueType(a)
        Ok(str) == [exc |-> NoError, val |-> str]
        Raise(e) == [exc |-> e, val |-> ""]
    IN IF ftype \in {PyStr("percentage"), PyStr("additive_percentage"),
                     PyStr("inverted_percentage")}
       THEN IF ~IsNum(val) THEN Raise(TypeError)
            ELSE IF ftype = PyStr("additive_percentage") THEN Ok(IntToStr(Percent(val)))
            ELSE IF ~Has(a, "effect_type") THEN Raise(KeyError(PyStr("effect_type")))
            ELSE IF ftype = PyStr("percentage")
            THEN Ok(IntToStr(PercentageValue(Percent(val), a.effect_type)))
            ELSE IF a.effect_type = "negative" /\ ~Has(a, "max_value")
            THEN Raise(KeyError(PyStr("max_value")))
            ELSE IF a.effect_type = "negative" /\ PyGreaterInt(a.max_value, 1)
            THEN Ok(IntToStr(0 - (100 - Percent(val))))
            ELSE Ok(IntToStr(100 - Percent(val)))
       ELSE IF ftype \in {PyStr("additive"), PyStr("particle_index"), PyStr("account_id")}
       THEN IF IntRaises(val) # NoError THEN Raise(IntRaises(val))
            ELSE IF IsNum(val) /\ val.h = 0 THEN Ok(IntToStr(val.n))
            ELSE Ok(PyToStr(val))
       ELSE IF ftype = PyStr("date")
       THEN IF IntRaises(val) # NoError THEN Raise(IntRaises(val))
            ELSE Ok(FormatDate(PyToInt(val)))
       ELSE Ok(PyToStr(val))

\* the model's integers are 32 bits wide: val * 100 is taken of values that fit
FitsPercent(a, value) ==
    (IF value = PyNone THEN AttrGetValue(a) ELSE value).n <= MaxFormattedUnits

AttrGetValueFormatted(value) ==
    /\ attr_obj # NoObject
    /\ FitsPercent(attr_obj._attribute, value)
    /\ LET r == GetValueFormatted(attr_obj._attribute, value)
       IN /\ raised' = r.exc
          /\ ret' = [op |-> "item_attribute.get_value_formatted", value |-> value, val |-> r.val]
    /\ UNCHANGED <<schema_obj, schema_built, item_obj, attr_obj, backpack_obj, schema_iter, backpack_iter>>

----------------------------------------------------------------------------
(* backpack *)

BadIdStatus == 8
PrivateStatus == 15

\* a variant without the branch for a private profile
LoadErrorNoPrivate(status) ==
    IF status = BadIdStatus THEN Error("Bad SteamID64 given")
    ELSE IF status # SuccessStatus THEN Error("Unknown error")
    ELSE NoError

\* what load raises for the status of the response
LoadError(status) ==
    IF status = BadIdStatus THEN Error("Bad SteamID64 given")
    ELSE IF status = PrivateStatus THEN Error("Profile set to private")
    ELSE IF status # SuccessStatus THEN Error("Unknown error")
    ELSE NoError

\* the item list load leaves in the response: [] when the first element is null
LoadedItems(itemlist) ==
    IF Len(itemlist) # 0 /\ itemlist[1] = NoObject THEN <<>> ELSE itemlist

\* load stores the decoded response, then looks at its status
BackpackLoad(resp) ==
    /\ schema_obj # NoObject
    /\ raised' = LoadError(resp.result.status)
    /\ backpack_obj' =
         [_inventory_object |->
            IF LoadError(resp.result.status) # NoError THEN resp
            ELSE [resp EXCEPT !.result.items = LoadedItems(resp.result.items)]]
    /\ ret' = [op |-> "backpack.load", resp |-> resp]
    /\ UNCHANGED <<schema_obj, schema_built, item_obj, attr_obj, schema_iter, backpack_iter>>

AttributeError == [class |-> "AttributeError"]
StopIteration == [class |-> "StopIteration"]

BackpackGetTotalCells ==
    /\ schema_obj # NoObject
    /\ IF backpack_obj._inventory_object = NoObject
       THEN raised' = AttributeError /\ ret' = [op |-> "backpack.get_total_cells"]
       ELSE /\ raised' = NoError
            /\ ret' = [op |-> "backpack.get_total_cells",
                       val |-> DictGet(backpack_obj._inventory_object.result,
                                       "num_backpack_slots", 0)]
    /\ UNCHANGED <<schema_obj, schema_built, item_obj, attr_obj, backpack_obj, schema_iter, backpack_iter>>

----------------------------------------------------------------------------
(* the generators of schema.nextitem and backpack.nextitem *)

NewGenerator == [state |-> "new", iterindex |-> 0, iterdata |-> <<>>]
DoneGenerator(g) == [g EXCEPT !.state = "done"]

\* a variant that sorts the definitions by descending "defindex"
AllItemsSortedDescending(S) ==
    LET RECURSIVE Pick(_)
        Pick(K) == IF K = {} THEN <<>>
                   ELSE LET k == CHOOSE k \in K :
                                    \A j \in K : S._items[k].defindex >= S._items[j].defindex
                        IN <<S._items[k]>> \o Pick(K \ {k})
    IN Pick(DOMAIN S._items)

\* self._items.values() sorted by "defindex"
AllItemsSorted(S) ==
    LET RECURSIVE Pick(_)
        Pick(K) == IF K = {} THEN <<>>
                   ELSE LET k == CHOOSE k \in K :
                                    \A j \in K : S._items[k].defindex <= S._items[j].defindex
                        IN <<S._items[k]>> \o Pick(K \ {k})
    IN Pick(DOMAIN S._items)

\* one next() of a nextitem generator g whose first step binds iterdata to data
GeneratorNext(S, g, data) ==
    LET iterdata == IF g.state = "new" THEN data ELSE g.iterdata
    IN IF g.state = "done" \/ ~(g.iterindex < Len(iterdata))
       THEN [exc |-> StopIteration, obj |-> NoObject,
             gen |-> [state |-> "done", iterindex |-> g.iterindex, iterdata |-> iterdata]]
       ELSE LET r == ItemInit(S, iterdata[g.iterindex + 1])
            IN IF r.exc # NoError
               THEN [exc |-> r.exc, obj |-> NoObject,
                     gen |-> [state |-> "done", iterindex |-> g.iterindex,
                              iterdata |-> iterdata]]
               ELSE [exc |-> NoError, obj |-> r.obj,
                     gen |-> [state |-> "running", iterindex |-> g.iterindex + 1,
                              iterdata |-> iterdata]]

SchemaIter ==
    /\ schema_obj # NoObject
    /\ schema_iter' = NewGenerator
    /\ raised' = NoError
    /\ ret' = [op |-> "schema.__iter__"]
    /\ UNCHANGED <<schema_obj, schema_built, item_obj, attr_obj, backpack_obj, backpack_iter>>

SchemaIterNext ==
    /\ schema_obj # NoObject
    /\ schema_iter # NoObject
    /\ LET r == GeneratorNext(schema_obj, schema_iter, AllItemsSorted(schema_obj))
       IN /\ raised' = r.exc
          /\ item_obj' = r.obj
          /\ schema_iter' = r.gen
    /\ ret' = [op |-> "schema.nextitem"]
    /\ UNCHANGED <<schema_obj, schema_built, attr_obj, backpack_obj, backpack_iter>>

BackpackIter ==
    /\ schema_obj # NoObject
    /\ backpack_iter' = NewGenerator
    /\ raised' = NoError
    /\ ret' = [op |-> "backpack.__iter__"]
    /\ UNCHANGED <<schema_obj, schema_built, item_obj, attr_obj, backpack_obj, schema_iter>>

BackpackIterNext ==
    /\ schema_obj # NoObject
    /\ backpack_iter # NoObject
    /\ IF backpack_iter.state = "new" /\ backpack_obj._inventory_object = NoObject
       THEN /\ raised' = AttributeError
            /\ item_obj' = NoObject
            /\ backpack_iter' = DoneGenerator(backpack_iter)
       ELSE LET data == IF backpack_iter.state = "new"
                        THEN backpack_obj._inventory_object.result.items
                        ELSE backpack_iter.iterdata
                r == GeneratorNext(schema_obj, backpack_iter, data)
            IN /\ raised' = r.exc
               /\ item_obj' = r.obj
               /\ backpack_iter' = r.gen
    /\ ret' = [op |-> "backpack.nextitem"]
    /\ UNCHANGED <<schema_obj, schema_built, attr_obj, backpack_obj, schema_iter>>

----------------------------------------------------------------------------
(* The inputs of the calls *)

\* an optional field is <<>> (absent) or <<v>>
WithOpt(d, k, o) == IF o = <<>> THEN d ELSE DictSet(d, k, o[1])

\* the attribute records an inventory item carries
IA_trade == [defindex |-> 1, value |-> PyInt(1)]
IA_date == [defindex |-> 2, value |-> PyInt(86400)]
IA_dmg == [defindex |-> 3, value |-> PyFloat(1, 25)]
IA_dmg_big == [defindex |-> 3, value |-> PyInt(1065353216), float_value |-> PyFloat(1, 0)]
IA_unknown == [defindex |-> 7, value |-> PyInt(1)]
InstanceAttrs == {IA_trade, IA_date, IA_dmg, IA_dmg_big, IA_unknown}

SeqsUpTo(S, n) == UNION {[1..k -> S] : k \in 0..n}

\* the raw instances of the catalog and item calls
MainInstances ==
    { WithOpt(WithOpt(WithOpt(WithOpt(EmptyDict, "item_name", nm), "defindex", d),
                      "attributes", at), "flag_cannot_trade", fl) :
        nm \in {<<>>, <<"Loose Cannon">>}, d \in {<<>>, <<1>>, <<2>>, <<3>>, <<9>>},
        at \in {<<>>, << <<IA_trade>> >>}, fl \in {<<>>, <<TRUE>>} }
    \cup
    { WithOpt([defindex |-> d, attributes |-> at], "flag_cannot_trade", fl) :
        d \in {1, 2}, at \in {<<IA_trade>>, <<IA_trade, IA_unknown>>},
        fl \in {<<FALSE>>, <<TRUE>>} }

\* the raw instances of the attribute resolution
AttrInstances ==
    { WithOpt(WithOpt([defindex |-> d], "item_name", nm), "attributes", at) :
        d \in {1, 2, 3}, nm \in {<<>>, <<"Loose Cannon">>},
        at \in {<<>>} \cup {<<x>> : x \in SeqsUpTo(InstanceAttrs, MaxAttrs)} }

QualityOpts == {<<>>, <<0>>, <<6>>, <<11>>, <<99>>}
CustomNameOpts == {<<>>, <<PyStr("")>>, <<PyStr("Bob")>>}
StyleOpts == {<<>>} \cup {<<PyInt(i)>> : i \in -1..MaxStyleId}

\* the raw instances of the name and style calls: inventory records and
\* self-describing records
NameInstances ==
    { WithOpt(WithOpt([defindex |-> d], "quality", q), "custom_name", cn) :
        d \in {1, 2, 3}, q \in QualityOpts, cn \in CustomNameOpts }
    \cup
    { WithOpt([defindex |-> d], "style", st) : d \in {1, 2}, st \in StyleOpts }
    \cup
    { WithOpt(WithOpt(WithOpt([item_name |-> nm], "proper_name", pn), "quality", q),
              "custom_name", cn) :
        nm \in {"The Axe", "Axe of The Sea", "Theory"}, pn \in {<<>>, <<TRUE>>, <<FALSE>>},
        q \in QualityOpts, cn \in {<<>>, <<PyStr("Bob")>>} }

\* the prefixes argument: None, or a dict from quality "str" to a prefix or None
PrefixArgs ==
    { NoObject, EmptyDict,
      [strange |-> PyStr("Odd"), unique |-> PyStr("Plain")],
      [normal |-> PyStr("Stock"), ohnoes |-> PyStr("Bad"), strange |-> PyNone] }

LookupKeys == {PyStr("cannot trade"), PyStr("damage bonus"), PyInt(2), PyInt(7)}
SchemaKeys == {PyInt(1), PyInt(9), [defindex |-> 3]}

\* the records attribute views are built from
FormatRecords ==
    { WithOpt(WithOpt(WithOpt(
        [defindex |-> 3, name |-> nm, effect_type |-> et, max_value |-> PyInt(mx)],
        "description_format", df), "value", v), "float_value", fv) :
        nm \in {"damage bonus", "tradable after date"},
        et \in {"positive", "negative", "neutral"},
        mx \in {1, 2},
        df \in {<<>>, <<"value_is_percentage">>, <<"value_is_additive_percentage">>,
                <<"value_is_inverted_percentage">>, <<"value_is_additive">>,
                <<"value_is_date">>},
        v \in {<<>>, <<PyInt(3)>>, <<PyFloat(1, 15)>>, <<PyFloat(0, 75)>>, <<PyStr("abc")>>,
               <<PyStr("12")>>, <<PyInt(1065353216)>>},
        fv \in {<<>>, <<PyFloat(1, 0)>>} }

FormatValues == {PyNone, PyFloat(1, 15), PyFloat(0, 75), PyInt(0), PyInt(86400)}

\* the decoded responses of GetPlayerItems
InventoryItemLists ==
    { <<>>, <<NoObject>>, <<NoObject, [defindex |-> 1]>>, <<[defindex |-> 2]>>,
      <<[defindex |-> 1], [defindex |-> 3, attributes |-> <<IA_trade>>]>>,
      <<[defindex |-> 9]>> }

InventoryResponses ==
    { [result |-> WithOpt([status |-> st, items |-> il], "num_backpack_slots", sl)] :
        st \in Statuses, il \in InventoryItemLists, sl \in {<<>>, <<50>>} }

----------------------------------------------------------------------------
Init ==
    /\ schema_obj = NoObject
    /\ schema_built = NoObject
    /\ item_obj = NoObject
    /\ attr_obj = NoObject
    /\ backpack_obj = [_inventory_object |-> NoObject]
    /\ schema_iter = NoObject
    /\ backpack_iter = NoObject
    /\ raised = NoError
    /\ ret = [op |-> "none"]

\* the catalog and its item views
Next ==
    \/ \E raw \in RawSchemas, lang \in Langs : SchemaInit(raw, lang)
    \/ \E oitem \in MainInstances : CreateItem(oitem)
    \/ \E key \in SchemaKeys : SchemaGetItem(key)
    \/ SchemaGetAttributesAll
    \/ SchemaGetAttributesOf
    \/ ItemGetAttributes
    \/ \E key \in LookupKeys : ItemContains(key)
    \/ ItemIsUntradable
    \/ SchemaIter
    \/ SchemaIterNext

Spec == Init /\ [][Next]_vars

\* the resolution of an item's attributes
NextAttrs ==
    \/ \E raw \in RawSchemas, lang \in Langs : SchemaInit(raw, lang)
    \/ \E oitem \in AttrInstances : CreateItem(oitem)
    \/ ItemGetAttributes

SpecAttrs == Init /\ [][NextAttrs]_vars

\* names and styles
NextName ==
    \/ \E raw \in RawSchemas, lang \in Langs : SchemaInit(raw, lang)
    \/ \E oitem \in NameInstances : CreateItem(oitem)
    \/ \E prefixes \in PrefixArgs : ItemGetFullItemName(prefixes)
    \/ ItemGetCurrentStyleName

SpecName == Init /\ [][NextName]_vars

\* attribute views
NextFormat ==
    \/ attr_obj = NoObject /\ \E a \in FormatRecords : AttrConstruct(a)
    \/ \E value \in FormatValues : AttrGetValueFormatted(value)

SpecFormat == Init /\ [][NextFormat]_vars

\* the backpack
NextBackpack ==
    \/ \E raw \in RawSchemas, lang \in Langs : SchemaInit(raw, lang)
    \/ \E resp \in InventoryResponses : BackpackLoad(resp)
    \/ BackpackGetTotalCells
    \/ BackpackIter
    \/ BackpackIterNext

SpecBackpack == Init /\ [][NextBackpack]_vars
----------------------------------------------------------------------------
(* Claims about the catalog and item construction (Spec) *)

CreatedFrom == ret.oitem
HasNameField == Has(CreatedFrom, "item_name")
DefindexKnown ==
    Has(CreatedFrom, "defindex") /\ CreatedFrom.defindex \in DOMAIN schema_obj._items

\* C1: create_item raises the item error and yields no view exactly for the instances
\* that have no item_name and whose defindex (if any) is no key of the catalog's items;
\* for every other instance it yields a view of that instance.
C1_CreateItemResolution ==
    ret.op = "schema.create_item" =>
        IF ~HasNameField /\ ~DefindexKnown
        THEN raised.class = "ItemError" /\ item_obj = NoObject
        ELSE raised = NoError /\ item_obj # NoObject /\ item_obj._item = CreatedFrom

C1_Witness ==
    /\ ret.op = "schema.create_item"
    /\ ~HasNameField
    /\ Has(CreatedFrom, "defindex")
    /\ ~DefindexKnown
    /\ raised.class = "ItemError"

\* C6: a schema whose status is not 1 raises the schema error, leaves no catalog, and
\* the error carries the status.
C6_SchemaErrorCarriesStatus ==
    (ret.op = "schema.__init__" /\ ret.status # 1) =>
        /\ raised.class = "SchemaError"
        /\ schema_obj = NoObject
        /\ Has(raised, "status")
        /\ raised.status = ret.status

\* C7: the catalog's item definitions, attribute definitions, name index and qualities
\* stay what __init__ made them, whatever is called afterwards.
C7_CatalogImmutable ==
    schema_obj # NoObject =>
        /\ schema_obj._items = schema_built._items
        /\ schema_obj._attributes = schema_built._attributes
        /\ schema_obj._attribute_names = schema_built._attribute_names
        /\ schema_obj._qualities = schema_built._qualities

----------------------------------------------------------------------------
(* Claims about the backpack (SpecBackpack) *)

LoadedStatus == ret.resp.result.status
StoredItems == backpack_obj._inventory_object.result.items

\* C10: load raises "Bad SteamID64 given" for status 8, "Profile set to private" for
\* status 15, "Unknown error" for every other status but 1; it returns only for status
\* 1, and then a list whose first element is null is stored as the empty list.
C10_LoadStatus ==
    ret.op = "backpack.load" =>
        /\ LoadedStatus = 8 => raised = Error("Bad SteamID64 given")
        /\ LoadedStatus = 15 => raised = Error("Profile set to private")
        /\ LoadedStatus \notin {1, 8, 15} => raised = Error("Unknown error")
        /\ LoadedStatus = 1 =>
            /\ raised = NoError
            /\ StoredItems = IF ret.resp.result.items # <<>> /\ ret.resp.result.items[1] = NoObject
                             THEN <<>>
                             ELSE ret.resp.result.items

C10_Witness ==
    /\ ret.op = "backpack.load"
    /\ LoadedStatus = 1
    /\ Len(ret.resp.result.items) = 2
    /\ ret.resp.result.items[1] = NoObject
    /\ StoredItems = <<>>
    /\ raised = NoError

----------------------------------------------------------------------------
(* Claims about attribute views (SpecFormat) *)

FormattedAttr == attr_obj._attribute
FormattedValue == IF ret.value = PyNone THEN AttrGetValue(FormattedAttr) ELSE ret.value
PercentageCall ==
    /\ ret.op = "item_attribute.get_value_formatted"
    /\ Has(FormattedAttr, "description_format")
    /\ FormattedAttr.description_format = "value_is_percentage"
    /\ FormattedValue = PyFloat(1, 15)

\* C3 as stated: a percentage of value 1.15 is formatted "15" for the effect type
\* "positive" and "-85" for the effect type "negative".
C3_AsStated ==
    PercentageCall =>
        /\ FormattedAttr.effect_type = "positive" => ret.val = "15"
        /\ FormattedAttr.effect_type = "negative" => ret.val = "-85"

\* C3, amended: a percentage of value 1.15 is formatted "15" for the effect type
\* "positive" and "15" again for the effect type "negative".
C3_PercentageFormatted ==
    PercentageCall =>
        /\ FormattedAttr.effect_type = "positive" => (raised = NoError /\ ret.val = "15")
        /\ FormattedAttr.effect_type = "negative" => (raised = NoError /\ ret.val = "15")

C3_Witness ==
    /\ PercentageCall
    /\ FormattedAttr.effect_type = "negative"
    /\ ret.val = "15"

BuiltFrom == ret.attribute
ValueNonNumeric ==
    \/ ~Has(BuiltFrom, "value")
    \/ (BuiltFrom.value.t = "str" /\ BuiltFrom.value.s = "abc")

\* C9: a record whose value is absent or a non-numeric string always yields a view,
\* no exception, and the record is left as it was.
C9_NonNumericSwallowed ==
    (ret.op = "item_attribute.__init__" /\ ValueNonNumeric) =>
        /\ raised = NoError
        /\ attr_obj # NoObject
        /\ attr_obj._attribute = BuiltFrom
        /\ ret.after = BuiltFrom

----------------------------------------------------------------------------
(* Claims about names and styles (SpecName) *)

NameCall == ret.op = "item.get_full_item_name"
RawName == item_obj._schema_item.item_name
CustomNameSet == Truthy(GetCustomName(item_obj))
NameQuality == GetQuality(schema_obj, item_obj)
Suppressed == ret.prefixes = NoObject

\* C4: the first four characters of the name are dropped only when it begins with
\* "The " and the item is name-prefixed; otherwise the name part is the raw name.
C4_LeadingArticleOnly ==
    (NameCall /\ ~CustomNameSet) =>
        ret.val = RenderName(schema_obj._language,
                             DisplayPrefix(schema_obj, item_obj, ret.prefixes),
                             IF StartsWith(RawName, "The ") /\ IsNamePrefixed(item_obj)
                             THEN SubSeq(RawName, 5, Len(RawName))
                             ELSE RawName)

\* the two rules of the claim that force the prefix empty
PrefixForced ==
    \/ Suppressed
    \/ CustomNameSet
    \/ (~IsNamePrefixed(item_obj) /\ NameQuality.str = "unique")
    \/ ((Suppressed \/ schema_obj._language # "en") /\ NameQuality.str \in {"unique", "normal"})

\* the map entry for the quality's "str", the quality's "prettystr" without one
ClaimedPrefix ==
    IF Has(ret.prefixes, NameQuality.str)
    THEN ret.prefixes[NameQuality.str]
    ELSE PyStr(NameQuality.prettystr)

\* C5 as stated: the bare name when a rule forces the prefix empty, otherwise
\* "name (prefix)" off "en" and "prefix name" on "en"; a custom name is the result.
C5_AsStated ==
    NameCall =>
        /\ ret.val = IF PrefixForced THEN WorkingName(item_obj)
                     ELSE IF schema_obj._language # "en"
                     THEN WorkingName(item_obj) \o " (" \o ClaimedPrefix.s \o ")"
                     ELSE ClaimedPrefix.s \o " " \o WorkingName(item_obj)
        /\ CustomNameSet => ret.val = GetCustomName(item_obj).s

\* C5, amended: the bare name when a rule forces the prefix empty or the prefix looked
\* up is itself None or empty, otherwise "name (prefix)" off "en" and "prefix name" on
\* "en"; a non-empty custom name is the result.
C5_FullItemName ==
    NameCall =>
        /\ ret.val = IF PrefixForced \/ ~Truthy(ClaimedPrefix) THEN WorkingName(item_obj)
                     ELSE IF schema_obj._language # "en"
                     THEN WorkingName(item_obj) \o " (" \o ClaimedPrefix.s \o ")"
                     ELSE ClaimedPrefix.s \o " " \o WorkingName(item_obj)
        /\ CustomNameSet => ret.val = GetCustomName(item_obj).s

C5_Witness ==
    /\ NameCall
    /\ ~PrefixForced
    /\ Has(ret.prefixes, NameQuality.str)
    /\ ClaimedPrefix = PyNone
    /\ schema_obj._language = "en"
    /\ ret.val = RawName

StyleCall == ret.op = "item.get_current_style_name" /\ Has(item_obj._item, "style")
StyleIndex == item_obj._item.style.n
StyleList == DictGet(item_obj._schema_item, "styles", <<>>)

\* C8: a style index inside the styles list, 0 included, yields the name of that
\* style; an index past the end yields the index itself.
C8_StyleByIndex ==
    (StyleCall /\ StyleIndex >= 0) =>
        IF StyleIndex < Len(StyleList)
        THEN ret.val = PyStr(StyleList[StyleIndex + 1].name)
        ELSE ret.val = PyInt(StyleIndex)

----------------------------------------------------------------------------
(* Claims about the resolution of attributes (SpecAttrs) *)

AttributesCall ==
    /\ ret.op = "item.get_attributes"
    /\ raised = NoError
    /\ item_obj._item # item_obj._schema_item

CatalogOverrides == GetRawAttributes(schema_obj, item_obj).val
InstanceOverrides == DictGet(item_obj._item, "attributes", <<>>)

\* the position of the first instance override with the id of catalog override i, or 0
MatchOf(i) ==
    LET m == {j \in 1..Len(InstanceOverrides) :
                InstanceOverrides[j].defindex = CatalogOverrides[i].defindex}
    IN IF m = {} THEN 0 ELSE SetMin(m)

\* the positions of the instance overrides the first pass merged
ConsumedPositions == {MatchOf(i) : i \in 1..Len(CatalogOverrides)} \ {0}

ClaimedFirstPart ==
    [i \in 1..Len(CatalogOverrides) |->
        IF MatchOf(i) = 0 THEN CatalogOverrides[i]
        ELSE DictMerge(CatalogOverrides[i], InstanceOverrides[MatchOf(i)])]

RECURSIVE ClaimedSecondPart(_)
\* from position j on: one entry per instance override whose position was not consumed
ClaimedSecondPart(j) ==
    IF j > Len(InstanceOverrides) THEN <<>>
    ELSE IF j \in ConsumedPositions THEN ClaimedSecondPart(j + 1)
    ELSE <<DictMerge(schema_obj._attributes[InstanceOverrides[j].defindex],
                     InstanceOverrides[j])>> \o ClaimedSecondPart(j + 1)

\* the records of the views built from a list of merged records
ViewsOf(seq) == [i \in 1..Len(seq) |-> AttrInit(seq[i]).attribute]

\* C2: get_attributes returns one entry per catalog override, merged with the first
\* instance override of its id if there is one, then one entry per instance override
\* the first pass did not consume, merged over the global definition of its id.
C2_AttributeUnion ==
    AttributesCall => ret.val = ViewsOf(ClaimedFirstPart \o ClaimedSecondPart(1))

----------------------------------------------------------------------------
(* Claims about the iteration of the catalog (Spec) *)

Definitions == {schema_obj._items[k] : k \in DOMAIN schema_obj._items}

\* the definition with exactly k - 1 definitions of a smaller defindex
NthDefinition(k) ==
    CHOOSE d \in Definitions :
        Cardinality({e \in Definitions : e.defindex < d.defindex}) = k - 1

\* the position of the next definition a generator yields: past the end once it is done
NextPosition(g) ==
    IF g.state = "done" THEN Cardinality(Definitions) + 1 ELSE g.iterindex + 1

\* C11: every __iter__ gives a generator that starts over, and the k-th next() of a
\* generator yields the view of the definition with the k-th smallest defindex, built
\* with the definition as its own instance so that get_schema_id() is that defindex;
\* after the last definition the generator stops.
C11_IterationAscending ==
    [][ /\ ret'.op = "schema.__iter__" =>
            (schema_iter'.state = "new" /\ NextPosition(schema_iter') = 1)
        /\ ret'.op = "schema.nextitem" =>
            IF NextPosition(schema_iter) <= Cardinality(Definitions)
            THEN /\ raised' = NoError
                 /\ item_obj'._item = NthDefinition(NextPosition(schema_iter))
                 /\ item_obj'._schema_item = item_obj'._item
                 /\ GetSchemaId(item_obj') = NthDefinition(NextPosition(schema_iter)).defindex
                 /\ NextPosition(schema_iter') = NextPosition(schema_iter) + 1
            ELSE /\ raised' = StopIteration
                 /\ item_obj' = NoObject
                 /\ schema_iter'.state = "done" ]_vars

C11_Witness ==
    /\ ret.op = "schema.nextitem"
    /\ raised = NoError
    /\ schema_iter.iterindex = Cardinality(Definitions)
    /\ Cardinality(Definitions) = 3
    /\ GetSchemaId(item_obj) = 3

----------------------------------------------------------------------------
(* Claims about is_untradable (Spec) *)

UntradableCall == ret.op = "item.is_untradable" /\ raised = NoError

\* the instance's "flag_cannot_trade" is there and true
CannotTradeFlag ==
    Has(item_obj._item, "flag_cannot_trade") /\ item_obj._item.flag_cannot_trade

\* get_attributes() returns a view named "cannot trade"
CannotTradeResolved ==
    LET r == GetAttributes(schema_obj, item_obj)
    IN r.exc = NoError /\ \E i \in 1..Len(r.val) : r.val[i].name = "cannot trade"

\* C12: is_untradable returns true exactly when the instance's cannot-trade flag is
\* set or get_attributes() returns an attribute named "cannot trade".
C12_UntradableFlagOrAttribute ==
    UntradableCall => (ret.val <=> (CannotTradeFlag \/ CannotTradeResolved))

C12_Witness ==
    /\ UntradableCall
    /\ CannotTradeFlag
    /\ ~CannotTradeResolved
    /\ ret.val

----------------------------------------------------------------------------
(* Claims about a failed refresh of the backpack (SpecBackpack) *)

\* the backpack holds the response of a load that succeeded
HoldsLoadedInventory ==
    /\ backpack_obj._inventory_object # NoObject
    /\ backpack_obj._inventory_object.result.status = SuccessStatus

\* what nextitem iterates and what get_total_cells returns for a backpack b
IteratedItems(b) == b._inventory_object.result.items
TotalCells(b) == DictGet(b._inventory_object.result, "num_backpack_slots", 0)

\* C13: a load that fails on a backpack holding a loaded inventory leaves the items
\* iterated afterwards and the total cells as they were before the call.
C13_FailedLoadKeepsInventory ==
    [][ (HoldsLoadedInventory /\ ret'.op = "backpack.load" /\ raised' # NoError) =>
            /\ IteratedItems(backpack_obj') = IteratedItems(backpack_obj)
            /\ TotalCells(backpack_obj') = TotalCells(backpack_obj) ]_vars

====
